---- MODULE Spec2Model ----
(***************************************************************************)
(* A model of metasim: the time-versioned History store, the Database      *)
(* loader with its fingerprinted cache, and the Playable::simulate state   *)
(* machine.  Every definition is translated from the Rust sources.         *)
(***************************************************************************)
EXTENDS Integers, Sequences, FiniteSets, TLC

(***************************************************************************)
(* Bounds of the model.                                                    *)
(***************************************************************************)
MaxTime == 2
NumValues == 2
MaxOps == 4

(***************************************************************************)
(* The state.  history, log, last: one History and the calls made on it.   *)
(* state, outs, balls, strikes, pc: the locals of Playable::simulate and   *)
(* its position; play: the last pitch handled.  det: two calls of simulate *)
(* with one seed.  dir, cache, res, steps: the ingestion directory, the    *)
(* cache and the last call of Database::load.  db, prep: the Database main *)
(* holds and the last game it prepared.  conc: the simulate calls of       *)
(* monte_carlo on their worker threads.  call: the last call of a pure     *)
(* function, with its arguments and result.                                *)
(***************************************************************************)
VARIABLES history, log, last,
          state, outs, balls, strikes, pc, play,
          det,
          dir, cache, res, steps,
          db, prep,
          conc,
          call

hvars == <<history, log, last>>
gvars == <<state, outs, balls, strikes, pc>>
lvars == <<dir, cache, res, steps>>
pvars == <<db, prep>>
vars == <<hvars, gvars, play, det, lvars, pvars, conc, call>>

(***************************************************************************)
(* Option<T>: None is the empty sequence, Some(v) the one-element one.     *)
(***************************************************************************)
None == <<>>
Some(v) == <<v>>

Times == 0..MaxTime
Values == 1..NumValues

SetMax(S) == CHOOSE x \in S : \A y \in S : y <= x
SetMin(S) == CHOOSE x \in S : \A y \in S : x <= y

(***************************************************************************)
(* History<T>(BTreeMap<u64, T>): a function from its keys to its values.   *)
(***************************************************************************)
HistoryNew == [k \in {} |-> 0]

\* self.0.range(..time).rev().next(): the bound excludes time itself.
get_excl(h, time) ==
    LET r == {k \in DOMAIN h : k < time}
    IN IF r = {} THEN None ELSE Some(h[SetMax(r)])

\* History::get: self.0.range(..=time).rev().next().map(|(_, v)| v)
get(h, time) ==
    LET r == {k \in DOMAIN h : k <= time}
    IN IF r = {} THEN None ELSE Some(h[SetMax(r)])

\* BTreeMap::insert as used by History::insert: the new map.
insert_map(h, time, value) ==
    [k \in (DOMAIN h) \cup {time} |-> IF k = time THEN value ELSE h[k]]

\* BTreeMap::insert as used by History::insert: the value it returns.
insert_ret(h, time) ==
    IF time \in DOMAIN h THEN Some(h[time]) ELSE None

\* BTreeMap::iter(): the keys in ascending order.
RECURSIVE iter_keys(_)
iter_keys(S) ==
    IF S = {} THEN <<>> ELSE <<SetMin(S)>> \o iter_keys(S \ {SetMin(S)})

\* The first loop of History::dedup over the keys ks (ascending), with the
\* loop's locals prev and remove.
RECURSIVE dedup_scan(_, _, _, _)
dedup_scan(h, ks, prev, remove) ==
    IF ks = <<>> THEN remove
    ELSE LET k == Head(ks)
         IN IF Some(h[k]) = prev
            THEN dedup_scan(h, Tail(ks), prev, remove \cup {k})
            ELSE dedup_scan(h, Tail(ks), Some(h[k]), remove)

\* A dedup that drops every record whose value occurred at any earlier key.
dedup_global(h) ==
    LET keep == {k \in DOMAIN h : \A j \in DOMAIN h : j < k => h[j] # h[k]}
    IN [k \in keep |-> h[k]]

\* A dedup that removes only the first duplicate it meets.
dedup_once(h) ==
    LET remove == dedup_scan(h, iter_keys(DOMAIN h), None, {})
        keep == IF remove = {} THEN DOMAIN h ELSE (DOMAIN h) \ {SetMin(remove)}
    IN [k \in keep |-> h[k]]

\* History::dedup: scan, then remove the collected keys.
dedup(h) ==
    LET remove == dedup_scan(h, iter_keys(DOMAIN h), None, {})
    IN [k \in (DOMAIN h) \ remove |-> h[k]]

(***************************************************************************)
(* Operations on one History.  log is the sequence of calls made so far,   *)
(* last the most recent call with the map it found and what it returned.   *)
(***************************************************************************)
NoCall == [op |-> "new", time |-> 0, value |-> 0, ret |-> None, before |-> HistoryNew]

HistInit ==
    /\ history = HistoryNew
    /\ log = <<>>
    /\ last = NoCall

Insert(time, value) ==
    /\ Len(log) < MaxOps
    /\ history' = insert_map(history, time, value)
    /\ log' = Append(log, [op |-> "insert", time |-> time, value |-> value])
    /\ last' = [op |-> "insert", time |-> time, value |-> value,
                ret |-> insert_ret(history, time), before |-> history]
    /\ UNCHANGED <<gvars, play, det, lvars, pvars, conc, call>>

Dedup ==
    /\ Len(log) < MaxOps
    /\ history' = dedup(history)
    /\ log' = Append(log, [op |-> "dedup", time |-> 0, value |-> 0])
    /\ last' = [op |-> "dedup", time |-> 0, value |-> 0,
                ret |-> None, before |-> history]
    /\ UNCHANGED <<gvars, play, det, lvars, pvars, conc, call>>

HistNext ==
    \/ \E time \in Times, value \in Values : Insert(time, value)
    \/ Dedup



(***************************************************************************)
(* Claims about History.                                                   *)
(***************************************************************************)
OnlyInserts == \A i \in 1..Len(log) : log[i].op = "insert"
InsertedTimes(lg) == {lg[i].time : i \in {j \in 1..Len(lg) : lg[j].op = "insert"}}

\* The value of the latest insert of the call sequence lg made at time t.
LatestAt(lg, t) ==
    LET at == {i \in 1..Len(lg) : lg[i].op = "insert" /\ lg[i].time = t}
    IN IF at = {} THEN None ELSE Some(lg[SetMax(at)].value)

\* C1: after any sequence of inserts, get(t) is the value of the latest
\* insert made at the greatest inserted timestamp <= t, and None when there
\* is no such timestamp; an insert at a present timestamp returns the value
\* it replaced (None at a new timestamp) and leaves all other records alone.
C1_GetLatestAtOrBefore ==
    OnlyInserts =>
        /\ \A t \in Times :
              LET ts == {u \in InsertedTimes(log) : u <= t}
              IN get(history, t) =
                     IF ts = {} THEN None ELSE LatestAt(log, SetMax(ts))
        /\ last.op = "insert" =>
              /\ last.ret = LatestAt(SubSeq(log, 1, Len(log) - 1), last.time)
              /\ DOMAIN history = (DOMAIN last.before) \cup {last.time}
              /\ history[last.time] = last.value
              /\ \A k \in (DOMAIN last.before) \ {last.time} :
                     history[k] = last.before[k]

\* An insert has overwritten a record with a different value, other
\* records being present.
C1_Witness ==
    /\ OnlyInserts
    /\ last.op = "insert"
    /\ last.ret # None
    /\ last.ret # Some(last.value)
    /\ Cardinality(DOMAIN history) >= 2
    /\ get(history, MaxTime) # None

\* The key before k among the keys of h, if any.
PrevKey(h, k) == {j \in DOMAIN h : j < k /\ \A m \in DOMAIN h : m < k => m <= j}

\* The records of h that start a maximal run of equal consecutive values.
RunHeads(h) ==
    LET keep == {k \in DOMAIN h : \A j \in PrevKey(h, k) : h[j] # h[k]}
    IN [k \in keep |-> h[k]]

\* C2: dedup keeps exactly the earliest record of every maximal run of
\* consecutive equal values; equal values separated by another value stay.
C2_DedupCollapsesRuns ==
    last.op = "dedup" => history = RunHeads(last.before)

\* dedup has met a run of two equal values followed by a different one.
C2_Witness ==
    /\ last.op = "dedup"
    /\ DOMAIN last.before = 0..2
    /\ last.before[0] = last.before[1]
    /\ last.before[1] # last.before[2]
    /\ DOMAIN history = {0, 2}

NoConsecutiveEqual(h) ==
    \A k \in DOMAIN h : \A j \in PrevKey(h, k) : h[j] # h[k]

DedupTwice ==
    /\ Len(log) >= 2
    /\ log[Len(log)].op = "dedup"
    /\ log[Len(log) - 1].op = "dedup"

\* C3: a dedup right after a dedup changes nothing, and dedup changes
\* nothing on an empty history, a single record, or a history without two
\* consecutive equal values.
C3_DedupIdempotent ==
    last.op = "dedup" =>
        /\ DedupTwice => history = last.before
        /\ Cardinality(DOMAIN last.before) <= 1 => history = last.before
        /\ NoConsecutiveEqual(last.before) => history = last.before

\* A second dedup has run after a first one that removed a record.
C3_Witness ==
    /\ last.op = "dedup"
    /\ DedupTwice
    /\ Cardinality(InsertedTimes(log)) > Cardinality(DOMAIN history)

(***************************************************************************)
(* Playable::simulate.  A Player is named by (side, slot) of the Playable's *)
(* lineups; the u8 fields of Score wrap at U8Mod.                          *)
(***************************************************************************)
LineupLen == 9
LastInning == 8
U8Mod == 256
MaxScore == 1
MaxInning == 9

Sides == {"away", "home"}
Player(side, slot) == [side |-> side, slot |-> slot]
lineups == [s \in Sides |-> [i \in 0..(LineupLen - 1) |-> Player(s, i)]]
NoBases == [i \in 0..2 |-> None]

\* State::default()
StateDefault ==
    [score |-> [inning |-> 0, bottom |-> FALSE, score |-> [away |-> 0, home |-> 0]],
     bases |-> NoBases,
     position |-> [away |-> 0, home |-> 0]]

is_top(st) == ~st.score.bottom
is_bottom(st) == st.score.bottom
hitting(st, x) == IF is_top(st) THEN x.away ELSE x.home
fielding(st, x) == IF is_bottom(st) THEN x.away ELSE x.home

\* State::batter
batter(st) == hitting(st, lineups)[hitting(st, st.position)]

\* A next_batter that moves the home side's position in either half.
next_batter_home(st) ==
    [st EXCEPT !.position.home = (st.position.home + 1) % LineupLen]

\* State::next_batter
next_batter(st) ==
    IF is_top(st)
    THEN [st EXCEPT !.position.away = (st.position.away + 1) % LineupLen]
    ELSE [st EXCEPT !.position.home = (st.position.home + 1) % LineupLen]

\* A next_half_inning that leaves the runners on their bases.
next_half_inning_keep_bases(st) ==
    IF st.score.bottom
    THEN [st EXCEPT !.score.bottom = FALSE,
                    !.score.inning = (st.score.inning + 1) % U8Mod]
    ELSE [st EXCEPT !.score.bottom = TRUE]

\* State::next_half_inning
next_half_inning(st) ==
    IF st.score.bottom
    THEN [st EXCEPT !.bases = NoBases, !.score.bottom = FALSE,
                    !.score.inning = (st.score.inning + 1) % U8Mod]
    ELSE [st EXCEPT !.bases = NoBases, !.score.bottom = TRUE]

\* A score that credits the home side in either half.
score_home(st) ==
    [st EXCEPT !.score.score.home = (st.score.score.home + 1) % U8Mod]

\* State::score
score(st) ==
    IF is_top(st)
    THEN [st EXCEPT !.score.score.away = (st.score.score.away + 1) % U8Mod]
    ELSE [st EXCEPT !.score.score.home = (st.score.score.home + 1) % U8Mod]

RECURSIVE score_times(_, _)
score_times(st, n) == IF n = 0 THEN st ELSE score_times(score(st), n - 1)

\* The for loop of State::walk from base i on, swap being the displaced player.
RECURSIVE walk_loop(_, _, _)
walk_loop(bases, i, swap) ==
    IF i > 2 THEN [bases |-> bases, swap |-> swap]
    ELSE LET old == bases[i]
             nb == [bases EXCEPT ![i] = swap]
         IN IF old = None THEN [bases |-> nb, swap |-> None]
            ELSE walk_loop(nb, i + 1, old)

\* A walk on which every runner moves up one base, forced or not.
walk_all(st, b) ==
    LET st1 == [st EXCEPT !.bases = [i \in 0..2 |->
                    IF i = 0 THEN Some(b) ELSE st.bases[i - 1]]]
    IN IF st.bases[2] # None THEN score(st1) ELSE st1

\* State::walk
walk(st, b) ==
    LET w == walk_loop(st.bases, 0, Some(b))
        st1 == [st EXCEPT !.bases = w.bases]
    IN IF w.swap # None THEN score(st1) ELSE st1

(***************************************************************************)
(* The generator rng of simulate, as the tape of the outcomes (r < p) of   *)
(* the draws still to come: a draw takes the head of the tape.             *)
(***************************************************************************)
gen(rng) == [value |-> Head(rng), rng |-> Tail(rng)]

\* The for loop of State::advance from base i down.
RECURSIVE advance_loop(_, _, _, _, _, _, _)
advance_loop(bases, i, min, in_front, new_bases, scored, rng) ==
    IF i < 0 THEN [bases |-> new_bases, scored |-> scored, rng |-> rng]
    ELSE IF bases[i] = None
         THEN advance_loop(bases, i - 1, min, in_front, new_bases, scored, rng)
         ELSE LET roll == in_front > min
                  extra_base == IF roll THEN gen(rng).value ELSE FALSE
                  rng1 == IF roll THEN gen(rng).rng ELSE rng
                  in_front1 == IF extra_base THEN min + 1 ELSE min
                  new_base == i + in_front1
              IN IF new_base >= 3
                 THEN advance_loop(bases, i - 1, min, in_front1, new_bases,
                                   scored + 1, rng1)
                 ELSE advance_loop(bases, i - 1, min, in_front1,
                                   [new_bases EXCEPT ![new_base] = bases[i]],
                                   scored, rng1)

\* An advance on which no runner gets a roll.
advance_no_roll(st, min, max, rng) ==
    LET a == advance_loop(st.bases, 2, min, min, NoBases, 0, rng)
    IN [state |-> [score_times(st, a.scored) EXCEPT !.bases = a.bases],
        rng |-> a.rng]

\* State::advance: the new State and what is left of the generator.
advance(st, min, max, rng) ==
    LET a == advance_loop(st.bases, 2, min, max, NoBases, 0, rng)
    IN [state |-> [score_times(st, a.scored) EXCEPT !.bases = a.bases],
        rng |-> a.rng]

\* An is_complete that looks at the inning alone.
is_complete_any(st) == st.score.inning >= LastInning

\* State::is_complete
is_complete(st) ==
    IF st.score.inning >= LastInning
    THEN IF is_top(st) /\ st.score.score.home > st.score.score.away
         THEN TRUE
         ELSE st.score.score.away # st.score.score.home
    ELSE FALSE

(***************************************************************************)
(* Pitch::simulate: the fixed order of its Bernoulli draws.  d names the   *)
(* outcome (r < p) of each draw; none of them comes from simulate's rng.   *)
(***************************************************************************)
DrawNames == {"in_strike_zone", "batter_swings", "batter_hits", "foul",
              "home_run", "out", "single", "triple"}
Draws == [DrawNames -> BOOLEAN]

\* The checks after contact tried with home_run before foul.
simulate_home_run_first(d) ==
    IF ~d["batter_swings"]
    THEN IF d["in_strike_zone"] THEN "Strike" ELSE "Ball"
    ELSE IF ~d["batter_hits"] THEN "Strike"
    ELSE IF d["home_run"] THEN "Dinger"
    ELSE IF d["foul"] THEN "Foul"
    ELSE IF d["out"] THEN "Out"
    ELSE IF d["single"] THEN "Single"
    ELSE IF d["triple"] THEN "Triple"
    ELSE "Double"

PitchSimulate(d) ==
    IF ~d["batter_swings"]
    THEN IF d["in_strike_zone"] THEN "Strike" ELSE "Ball"
    ELSE IF ~d["batter_hits"] THEN "Strike"
    ELSE IF d["foul"] THEN "Foul"
    ELSE IF d["home_run"] THEN "Dinger"
    ELSE IF d["out"] THEN "Out"
    ELSE IF d["single"] THEN "Single"
    ELSE IF d["triple"] THEN "Triple"
    ELSE "Double"

\* enum Pitch, as the set of values Pitch::simulate returns.
Pitch == {PitchSimulate(d) : d \in Draws}

(***************************************************************************)
(* The match on the pitch in simulate.  Each arm maps the locals of the    *)
(* loops (with the State and the generator) to their values after the arm; *)
(* brk tells whether the arm leaves the pitch loop.                        *)
(***************************************************************************)
Locals(st, o, b, s, brk, rng) ==
    [state |-> st, outs |-> o, balls |-> b, strikes |-> s, brk |-> brk,
     rng |-> rng]

\* *state.bases.iter_mut().rev().next().unwrap() = None
clear_last_base(st) == [st EXCEPT !.bases[2] = None]

\* state.bases.iter().any(Option::is_some)
any_base(st) == \E i \in 0..2 : st.bases[i] # None

\* Pitch::Ball arm
arm_ball(l, bat) ==
    IF l.balls + 1 = 4
    THEN [l EXCEPT !.balls = l.balls + 1, !.state = walk(l.state, bat),
                   !.brk = TRUE]
    ELSE [l EXCEPT !.balls = l.balls + 1]

\* Pitch::Strike arm
arm_strike(l) ==
    IF l.strikes + 1 = 3
    THEN [l EXCEPT !.strikes = l.strikes + 1, !.outs = l.outs + 1, !.brk = TRUE]
    ELSE [l EXCEPT !.strikes = l.strikes + 1]

\* A Foul arm that counts every foul as a strike.
arm_foul_counted(l) == [l EXCEPT !.strikes = l.strikes + 1]

\* Pitch::Foul arm
arm_foul(l) ==
    IF l.strikes < 2 THEN [l EXCEPT !.strikes = l.strikes + 1] ELSE l

\* The double-play block of the Out arm: outs += 1, the last base cleared,
\* advance(0, 1).
out_double_play(l, rng) ==
    LET a == advance(clear_last_base(l.state), 0, 1, rng)
    IN [l EXCEPT !.outs = l.outs + 1, !.state = a.state, !.rng = a.rng,
                 !.brk = TRUE]

\* The fielder's-choice block of the Out arm: outs += 1, the last base
\* cleared, advance(1, 1), the batter on first.
out_fielders_choice(l, bat, rng) ==
    LET a == advance(clear_last_base(l.state), 1, 1, rng)
    IN [l EXCEPT !.outs = l.outs + 1,
                 !.state = [a.state EXCEPT !.bases[0] = Some(bat)],
                 !.rng = a.rng, !.brk = TRUE]

\* Pitch::Out arm.  With a runner on base it draws two defenders
\* (gen_range) and the double-play roll, then the fielder's-choice roll.
arm_out(l, bat) ==
    LET l1 == [l EXCEPT !.outs = l.outs + 1, !.brk = TRUE]
    IN IF any_base(l.state)
       THEN LET g1 == gen(l.rng)
                g2 == gen(g1.rng)
                double_play == gen(g2.rng)
            IN IF double_play.value
               THEN out_double_play(l1, double_play.rng)
               ELSE LET fielders_choice == gen(double_play.rng)
                    IN IF fielders_choice.value
                       THEN out_fielders_choice(l1, bat, fielders_choice.rng)
                       ELSE [l1 EXCEPT !.rng = fielders_choice.rng]
       ELSE l1

\* A hit that puts the batter one base further than the arm does.
arm_hit_far(l, bat, min, max, base) ==
    LET a == advance(l.state, min, max, l.rng)
    IN [l EXCEPT !.state = [a.state EXCEPT !.bases[max - 1] = Some(bat)],
                 !.rng = a.rng, !.brk = TRUE]

\* A hit on which the runners stay where they are.
arm_hit_no_advance(l, bat, min, max, base) ==
    [l EXCEPT !.state.bases[base] = Some(bat), !.brk = TRUE]

\* The arms Single, Double and Triple: advance(min, max), then the batter
\* on the given base.
arm_hit(l, bat, min, max, base) ==
    LET a == advance(l.state, min, max, l.rng)
    IN [l EXCEPT !.state = [a.state EXCEPT !.bases[base] = Some(bat)],
                 !.rng = a.rng, !.brk = TRUE]

\* Pitch::Dinger arm
arm_dinger(l) ==
    LET a == advance(l.state, 3, 3, l.rng)
    IN [l EXCEPT !.state = a.state, !.rng = a.rng, !.brk = TRUE]

\* match Pitch::simulate(..) { .. }
handle_pitch(p, l, bat) ==
    CASE p = "Ball" -> arm_ball(l, bat)
      [] p = "Strike" -> arm_strike(l)
      [] p = "Foul" -> arm_foul(l)
      [] p = "Out" -> arm_out(l, bat)
      [] p = "Single" -> arm_hit(l, bat, 1, 2, 0)
      [] p = "Double" -> arm_hit(l, bat, 2, 3, 1)
      [] p = "Triple" -> arm_hit(l, bat, 3, 3, 2)
      [] p = "Dinger" -> arm_dinger(l)


(***************************************************************************)
(* The loops of simulate.  pc is "check" at the test of the outer while,   *)
(* "pitch" before a call of Pitch::simulate, "half" after the third out    *)
(* and "done" once state.score is returned.                                *)
(***************************************************************************)
MaxDraws == 5
Tape(n) == [1..n -> BOOLEAN]

\* The outcomes the generator can give to the draws one pitch makes in
\* state st: advance rolls at most once per runner; the Out arm draws two
\* defenders first (gen_range, which decide nothing), then its rolls.
TapesFor(p, st) ==
    LET runners == Cardinality({i \in 0..2 : st.bases[i] # None})
    IN IF p = "Out" /\ runners > 0
       THEN {t \in Tape(MaxDraws) : ~t[1] /\ ~t[2]}
       ELSE IF p \in {"Single", "Double"} THEN Tape(runners)
       ELSE {<<>>}

\* The cap on the counters of Score that keeps the state space finite.
WithinBounds(st, cap) ==
    /\ st.score.score.away <= cap
    /\ st.score.score.home <= cap
    /\ st.score.inning <= MaxInning

\* The regulation innings before the last one are explored along strikes
\* only; the last one and the extra innings in full.
Explored(st, p) == st.score.inning >= LastInning \/ p = "Strike"

GameInit ==
    /\ state = StateDefault
    /\ outs = 0
    /\ balls = 0
    /\ strikes = 0
    /\ pc = "check"

\* while !state.is_complete(): the loop is left and state.score returned.
Return ==
    /\ pc = "check"
    /\ is_complete(state)
    /\ pc' = "done"
    /\ UNCHANGED <<state, outs, balls, strikes>>
    /\ UNCHANGED <<hvars, play, det, lvars, pvars, conc, call>>

\* while !state.is_complete(): a half-inning begins with outs = 0.
BeginHalf ==
    /\ pc = "check"
    /\ ~is_complete(state)
    /\ outs' = 0
    /\ balls' = 0
    /\ strikes' = 0
    /\ pc' = "pitch"
    /\ UNCHANGED state
    /\ UNCHANGED <<hvars, play, det, lvars, pvars, conc, call>>

\* The locals after the pitch p thrown at the count (b, s), the generator
\* giving the outcomes rng.
after_pitch(p, b, s, rng) ==
    handle_pitch(p, Locals(state, outs, b, s, FALSE, rng), batter(state))

\* The end of a plate appearance with the test of is_complete added to it.
end_checked(l) ==
    /\ state' = next_batter(l.state)
    /\ outs' = l.outs
    /\ balls' = 0
    /\ strikes' = 0
    /\ pc' = IF is_complete(next_batter(l.state)) THEN "done"
             ELSE IF l.outs < 3 THEN "pitch" ELSE "half"

\* What follows the pitch loop: next_batter and the test outs < 3.
EndPlateAppearance(l) ==
    /\ state' = next_batter(l.state)
    /\ outs' = l.outs
    /\ balls' = 0
    /\ strikes' = 0
    /\ pc' = IF l.outs < 3 THEN "pitch" ELSE "half"

\* One pass of the pitch loop.
ThrowPitch(p, rng) ==
    /\ pc = "pitch"
    /\ LET l == after_pitch(p, balls, strikes, rng)
       IN IF l.brk
          THEN EndPlateAppearance(l)
          ELSE /\ state' = l.state
               /\ outs' = l.outs
               /\ balls' = l.balls
               /\ strikes' = l.strikes
               /\ pc' = "pitch"

\* The counts a plate appearance can reach before its last pitch.  The arms
\* that break at every count are taken at 0-0.
CountsFor(p) ==
    IF p \in {"Ball", "Strike", "Foul"} THEN (0..3) \X (0..2) ELSE {<<0, 0>>}

\* A whole plate appearance: the pitch loop up to its break, p being the
\* pitch that breaks it and c the count it is thrown at.
PlateAppearance(p, c, rng, cap) ==
    /\ pc = "pitch"
    /\ LET l == after_pitch(p, c[1], c[2], rng)
       IN /\ l.brk
          /\ WithinBounds(l.state, cap)
          /\ EndPlateAppearance(l)
    /\ UNCHANGED <<hvars, play, lvars, pvars, conc, call>>

\* state.next_half_inning() after the third out.
NextHalfInning ==
    /\ pc = "half"
    /\ next_half_inning(state).score.inning <= MaxInning
    /\ state' = next_half_inning(state)
    /\ pc' = "check"
    /\ UNCHANGED <<outs, balls, strikes>>
    /\ UNCHANGED <<hvars, play, det, lvars, pvars, conc, call>>

GameNext ==
    \/ Return
    \/ BeginHalf
    \/ \E p \in Pitch : \E c \in CountsFor(p) : \E rng \in TapesFor(p, state) :
           Explored(state, p) /\ PlateAppearance(p, c, rng, MaxScore)
           /\ UNCHANGED det
    \/ NextHalfInning

(***************************************************************************)
(* The pitch loop of one plate appearance, pitch by pitch, from the states *)
(* simulate can be in when a batter comes up in the last regulation        *)
(* inning: the runners are the batters just before, in batting order.      *)
(* play records the last pitch: the locals before and after its arm.       *)
(***************************************************************************)
NoPlay == [pitch |-> "none"]

\* The bases with the set occ of them occupied, for the batter in slot pos.
RunnersOn(occ, side, pos) ==
    [i \in 0..2 |->
        IF i \in occ
        THEN Some(Player(side, (pos + LineupLen
                                - Cardinality({j \in occ : j <= i})) % LineupLen))
        ELSE None]

BatterUp(side, pos, occ, runs) ==
    [score |-> [inning |-> LastInning, bottom |-> (side = "home"),
                score |-> [away |-> IF side = "away" THEN runs ELSE 0,
                           home |-> IF side = "home" THEN runs ELSE 0]],
     bases |-> RunnersOn(occ, side, pos),
     position |-> [away |-> IF side = "away" THEN pos ELSE 0,
                   home |-> IF side = "home" THEN pos ELSE 0]]

PitchInit ==
    /\ \E side \in Sides, pos \in {0, LineupLen - 1}, occ \in SUBSET (0..2),
          runs \in 0..MaxScore :
           state = BatterUp(side, pos, occ, runs)
    /\ outs \in 0..2
    /\ balls = 0
    /\ strikes = 0
    /\ pc = "pitch"
    /\ play = NoPlay

PlateAppearanceOver == play.pitch # "none" /\ play.after.brk

Pitched(p, rng) ==
    /\ ~PlateAppearanceOver
    /\ ThrowPitch(p, rng)
    /\ play' = [pitch |-> p, rng |-> rng,
                before |-> Locals(state, outs, balls, strikes, FALSE, rng),
                after |-> after_pitch(p, balls, strikes, rng)]
    /\ UNCHANGED <<hvars, det, lvars, pvars, conc, call>>

PitchNext == \E p \in Pitch : \E rng \in TapesFor(p, state) : Pitched(p, rng)

(***************************************************************************)
(* Two calls of simulate on the same Playable with the same seed.  The     *)
(* generator of a call is seeded from (id, seed) and serves the draws of   *)
(* simulate itself (the Out arm and advance); Pitch::simulate takes no     *)
(* generator and draws from random() and thread_rng(), which no seed       *)
(* fixes, so its result is any member of Pitch.  det holds the id, the     *)
(* seed, the state of the call's generator, the number of the call and the *)
(* Score the first call returned.                                          *)
(***************************************************************************)
MaxSeed == 1
RngMod == 8
RngMul == 5
RngInc == 3

\* A Uuid as its high and low halves.
Uuids == (0..MaxSeed) \X (0..MaxSeed)
Seeds == 0..MaxSeed

\* util::halfuuid: the low eight bytes of the id.
halfuuid(uuid) == uuid[2]

\* StdRng::seed_from_u64(halfuuid(self.id).wrapping_add(seed)): the state
\* of the generator is a function of the sum alone.
seed_from_u64(id, seed) == (halfuuid(id) + seed) % RngMod

\* One step of the generator.
next_u(s) == (RngMul * s + RngInc) % RngMod

\* The outcomes the generator in state s gives to the next n draws.
RECURSIVE seeded_draws(_, _)
seeded_draws(s, n) ==
    IF n = 0 THEN <<>>
    ELSE <<next_u(s) >= RngMod \div 2>> \o seeded_draws(next_u(s), n - 1)

\* The state of the generator after n draws.
RECURSIVE after_draws(_, _)
after_draws(s, n) == IF n = 0 THEN s ELSE after_draws(next_u(s), n - 1)

NoDet == [call |-> 0, id |-> <<0, 0>>, seed |-> 0, rng |-> 0, first |-> None]

DetInit ==
    \E id \in Uuids : \E seed \in Seeds :
        det = [call |-> 1, id |-> id, seed |-> seed,
               rng |-> seed_from_u64(id, seed), first |-> None]

\* The first call returns state.score; the second call begins with
\* State::default() and a generator seeded as the first one was.
FirstReturn ==
    /\ det.call = 1
    /\ pc = "check"
    /\ is_complete(state)
    /\ det' = [det EXCEPT !.call = 2, !.first = Some(state.score),
                          !.rng = seed_from_u64(det.id, det.seed)]
    /\ state' = StateDefault
    /\ outs' = 0
    /\ balls' = 0
    /\ strikes' = 0
    /\ pc' = "check"
    /\ UNCHANGED <<hvars, play, lvars, pvars, conc, call>>

\* The second call returns state.score.
SecondReturn ==
    /\ det.call = 2
    /\ Return

\* The two calls are explored along strikes, and in the top of the last
\* regulation inning along the pitches of DetPitches as well.
DetPitches == {"Ball", "Out", "Single"}
DetExplored(st, p) ==
    (st.score.inning = LastInning /\ is_top(st) /\ p \in DetPitches)
    \/ p = "Strike"

\* A plate appearance whose draws in simulate come from the call's
\* generator, the result p of Pitch::simulate being free.
DetPlateAppearance(p, c) ==
    LET rng == seeded_draws(det.rng, MaxDraws)
        l == after_pitch(p, c[1], c[2], rng)
    IN /\ DetExplored(state, p)
       /\ PlateAppearance(p, c, rng, MaxScore + 1)
       /\ det' = [det EXCEPT
                     !.rng = after_draws(det.rng, MaxDraws - Len(l.rng))]

DetNext ==
    \/ FirstReturn
    \/ SecondReturn
    \/ BeginHalf
    \/ \E p \in Pitch : \E c \in CountsFor(p) : DetPlateAppearance(p, c)
    \/ NextHalfInning

(***************************************************************************)
(* Database::load.  dir is the ingestion directory: each file name has no  *)
(* file or a file with a modification time and a content, a sequence of    *)
(* lines; the length of a file is the length of its content.  cache maps   *)
(* the fingerprint in a cache path to the blob stored there.  res records  *)
(* the last call of load: the directory and cache it found, its Result,    *)
(* the files it opened and whether it wrote a blob.  The model follows the *)
(* History of one team id.                                                 *)
(***************************************************************************)
NumFiles == 2
MaxStamp == 1
MaxLines == 1
MaxLoadOps == 3
DATABASE_VERSION == 1
FxBits == 8
FxRotate == 5
FxSeed == 149

FileNames == 1..NumFiles
Stamps == 0..MaxStamp

\* InputLine: a batch of team snapshots with its meta.timestamp, or a line
\* that does not deserialize.
TeamsLine(timestamp, data) ==
    [kind |-> "AllTeams", timestamp |-> timestamp, data |-> data]
BadLine == [kind |-> "bad", timestamp |-> 0, data |-> 0]
Lines == {TeamsLine(t, v) : t \in Stamps, v \in Values} \cup {BadLine}
Contents == UNION {[1..n -> Lines] : n \in 0..MaxLines}
Files == [modified : Stamps, content : Contents]
Dirs == [FileNames -> {None} \cup {Some(f) : f \in Files}]

\* read_dir::Entry of the file called name.
Entry(d, name) ==
    [file_name |-> name, len |-> Len(d[name][1].content),
     modified |-> d[name][1].modified]

\* #[derive(PartialOrd, Ord)] on Entry: field by field.
entry_lt(a, b) ==
    \/ a.file_name < b.file_name
    \/ a.file_name = b.file_name /\ a.len < b.len
    \/ a.file_name = b.file_name /\ a.len = b.len /\ a.modified < b.modified

\* A set that keeps the order of arrival.
push_back(set, e) ==
    IF \E i \in 1..Len(set) : set[i] = e THEN set ELSE Append(set, e)

\* BTreeSet::insert: the set is kept in the order of Ord.
btree_insert(set, e) ==
    IF \E i \in 1..Len(set) : set[i] = e THEN set
    ELSE LET n == Cardinality({i \in 1..Len(set) : entry_lt(set[i], e)})
         IN SubSeq(set, 1, n) \o <<e>> \o SubSeq(set, n + 1, Len(set))

\* read_dir: the entries of the regular files, met in the order the
\* operating system lists them, collected in a BTreeSet.
RECURSIVE read_dir_loop(_, _, _)
read_dir_loop(d, order, set) ==
    IF order = <<>> THEN set
    ELSE read_dir_loop(d, Tail(order), btree_insert(set, Entry(d, Head(order))))

read_dir(d, order) == read_dir_loop(d, order, <<>>)

\* The orders in which the files of d can be listed.
Present(d) == {n \in FileNames : d[n] # None}
Orders(d) ==
    {o \in [1..Cardinality(Present(d)) -> Present(d)] :
        \A i, j \in DOMAIN o : i # j => o[i] # o[j]}

\* FxHasher on words of FxBits bits.
FxMod == 2 ^ FxBits
RECURSIVE bitxor(_, _)
bitxor(a, b) ==
    IF a = 0 THEN b
    ELSE IF b = 0 THEN a
    ELSE ((a + b) % 2) + (2 * bitxor(a \div 2, b \div 2))

rotate_left(h) ==
    ((h * (2 ^ FxRotate)) % FxMod) + (h \div (2 ^ (FxBits - FxRotate)))

add_to_hash(h, word) == (bitxor(rotate_left(h), word % FxMod) * FxSeed) % FxMod

RECURSIVE write_words(_, _)
write_words(h, words) ==
    IF words = <<>> THEN h
    ELSE write_words(add_to_hash(h, Head(words)), Tail(words))

\* #[derive(Hash)] on Entry and on the BTreeSet: the length, then the
\* fields of each entry in the order of iteration.
RECURSIVE entries_words(_)
entries_words(entries) ==
    IF entries = <<>> THEN <<>>
    ELSE LET e == Head(entries)
         IN <<e.file_name, e.len, e.modified>> \o entries_words(Tail(entries))

\* #[derive(Hash)] on CacheKey { version, entries }.
cache_key_words(entries) ==
    <<DATABASE_VERSION, Len(entries)>> \o entries_words(entries)

\* get_cache_path: the fingerprint in the file name of the blob, an error
\* when dirs::cache_dir() finds no cache directory.
get_cache_path(entries, cache_dir) ==
    IF cache_dir THEN Some(write_words(0, cache_key_words(entries))) ELSE None

\* The blobs a cache path can hold: a serialized Database, or bytes that
\* do not deserialize.
Blob(database) == [ok |-> TRUE, database |-> database]
NoTeams == [id \in {} |-> HistoryNew]
BadBlob == [ok |-> FALSE, database |-> NoTeams]

\* A load_from_cache that takes whatever bytes it finds for a Database.
load_from_cache_unchecked(entries, c, cache_dir) ==
    LET cache_path == get_cache_path(entries, cache_dir)
    IN IF cache_path # None /\ cache_path[1] \in DOMAIN c
       THEN Some(c[cache_path[1]].database)
       ELSE None

\* Database::load_from_cache: the Database, or nothing on any error.
load_from_cache(entries, c, cache_dir) ==
    LET cache_path == get_cache_path(entries, cache_dir)
    IN IF cache_path # None /\ cache_path[1] \in DOMAIN c /\ c[cache_path[1]].ok
       THEN Some(c[cache_path[1]].database)
       ELSE None

\* An insert that starts the History of the team anew.
teams_replace(teams, timestamp, team) ==
    [id \in {"team"} |-> insert_map(HistoryNew, timestamp, team)]

\* history.insert(meta.timestamp, team) on database.teams.entry(team.id).
teams_insert(teams, timestamp, team) ==
    LET h == IF "team" \in DOMAIN teams THEN teams["team"] ELSE HistoryNew
    IN [id \in {"team"} |-> insert_map(h, timestamp, team)]

\* Lines read with the bad ones passed over.
RECURSIVE read_lines_skip(_, _)
read_lines_skip(lines, built) ==
    IF lines = <<>> THEN built
    ELSE IF Head(lines).kind = "bad" THEN read_lines_skip(Tail(lines), built)
    ELSE read_lines_skip(Tail(lines),
             [built EXCEPT !.teams =
                 teams_insert(built.teams, Head(lines).timestamp,
                              Head(lines).data)])

\* The lines of one file, in order; line? leaves at the first bad one.
RECURSIVE read_lines(_, _)
read_lines(lines, built) ==
    IF lines = <<>> THEN built
    ELSE IF Head(lines).kind = "bad" THEN [built EXCEPT !.ok = FALSE]
    ELSE read_lines(Tail(lines),
             [built EXCEPT !.teams =
                 teams_insert(built.teams, Head(lines).timestamp,
                              Head(lines).data)])

\* for entry in &entries: File::open(&path)?, then its lines.
RECURSIVE read_files(_, _, _, _)
read_files(d, entries, fail_open, built) ==
    IF entries = <<>> \/ ~built.ok THEN built
    ELSE LET name == Head(entries).file_name
         IN IF name \in fail_open THEN [built EXCEPT !.ok = FALSE]
            ELSE read_files(d, Tail(entries), fail_open,
                     read_lines(d[name][1].content,
                         [built EXCEPT !.opened = Append(built.opened, name)]))

\* history.dedup() on every value of database.teams.
dedup_all(teams) == [id \in DOMAIN teams |-> dedup(teams[id])]

\* Database::save_to_cache: the cache after the call.
save_to_cache(c, database, entries, cache_dir, write_ok) ==
    LET cache_path == get_cache_path(entries, cache_dir)
    IN IF cache_path # None /\ write_ok
       THEN [fp \in DOMAIN c \cup {cache_path[1]} |->
                IF fp = cache_path[1] THEN Blob(database) ELSE c[fp]]
       ELSE c

\* Database::load, as its Result, the files it opened and the cache it
\* leaves.  order is the order in which the directory is listed;
\* fail_open are the files that cannot be opened; cache_dir and write_ok
\* tell whether a cache directory is found and whether a blob can be
\* written.
load(d, c, order, fail_open, cache_dir, write_ok) ==
    LET entries == read_dir(d, order)
        cached == load_from_cache(entries, c, cache_dir)
        built == read_files(d, entries, fail_open,
                            [ok |-> TRUE, teams |-> NoTeams, opened |-> <<>>])
        database == dedup_all(built.teams)
        base == [call |-> "load", listed |-> TRUE, dir |-> d, cache |-> c,
                 cache_dir |-> cache_dir, fail_open |-> fail_open,
                 write_ok |-> write_ok,
                 cache_path |-> get_cache_path(entries, cache_dir)]
    IN IF cached # None
       THEN [res |-> base @@ [ok |-> TRUE, database |-> cached[1],
                              opened |-> <<>>, saved |-> FALSE],
             cache |-> c]
       ELSE IF ~built.ok
       THEN [res |-> base @@ [ok |-> FALSE, database |-> NoTeams,
                              opened |-> built.opened, saved |-> FALSE],
             cache |-> c]
       ELSE [res |-> base @@ [ok |-> TRUE, database |-> database,
                              opened |-> built.opened,
                              saved |-> cache_dir /\ write_ok],
             cache |-> save_to_cache(c, database, entries, cache_dir,
                                     write_ok)]

NoLoad ==
    [call |-> "none", listed |-> FALSE, dir |-> [n \in FileNames |-> None],
     cache |-> [fp \in {} |-> BadBlob], cache_dir |-> FALSE,
     fail_open |-> {}, write_ok |-> FALSE, cache_path |-> None, ok |-> FALSE, database |-> NoTeams,
     opened |-> <<>>, saved |-> FALSE]

\* The directory unread, the cache empty, no call made.
LoadIdle ==
    /\ dir = [n \in FileNames |-> None]
    /\ cache = [fp \in {} |-> BadBlob]
    /\ res = NoLoad
    /\ steps = 0

\* Any ingestion directory, and a cache that holds nothing yet.
LoadInit ==
    /\ dir \in Dirs
    /\ cache = [fp \in {} |-> BadBlob]
    /\ res = NoLoad
    /\ steps = 0

\* A call of Database::load that can list the directory.
Load(order, fail_open, cache_dir, write_ok) ==
    /\ steps < MaxLoadOps
    /\ LET r == load(dir, cache, order, fail_open, cache_dir, write_ok)
       IN /\ res' = r.res
          /\ cache' = r.cache
    /\ steps' = steps + 1
    /\ UNCHANGED dir
    /\ UNCHANGED <<hvars, gvars, play, det, pvars, conc, call>>

\* A call of Database::load on a directory that cannot be listed:
\* read_dir(dir)? returns the error.
LoadUnlisted ==
    /\ steps < MaxLoadOps
    /\ res' = [NoLoad EXCEPT !.call = "load", !.dir = dir, !.cache = cache]
    /\ steps' = steps + 1
    /\ UNCHANGED <<dir, cache>>
    /\ UNCHANGED <<hvars, gvars, play, det, pvars, conc, call>>

\* Between two calls a file is written: created or replaced, with any
\* content and modification time.
WriteFile(name, f) ==
    /\ steps < MaxLoadOps
    /\ dir[name] # Some(f)
    /\ dir' = [dir EXCEPT ![name] = Some(f)]
    /\ res' = NoLoad
    /\ steps' = steps + 1
    /\ UNCHANGED cache
    /\ UNCHANGED <<hvars, gvars, play, det, pvars, conc, call>>

\* Between two calls a blob of the cache is damaged.
DamageBlob(fp) ==
    /\ steps < MaxLoadOps
    /\ fp \in DOMAIN cache
    /\ cache[fp].ok
    /\ cache' = [cache EXCEPT ![fp] = BadBlob]
    /\ res' = NoLoad
    /\ steps' = steps + 1
    /\ UNCHANGED dir
    /\ UNCHANGED <<hvars, gvars, play, det, pvars, conc, call>>

LoadNext ==
    \/ \E order \in Orders(dir) : \E fail_open \in SUBSET Present(dir) :
           \E cache_dir, write_ok \in BOOLEAN :
               Load(order, fail_open, cache_dir, write_ok)
    \/ LoadUnlisted
    \/ \E name \in FileNames : \E f \in Files : WriteFile(name, f)
    \/ \E fp \in DOMAIN cache : DamageBlob(fp)

(***************************************************************************)
(* Game::playable and the body of main's loop over the games.  A Database  *)
(* holds the History of each team and player it has met; a team snapshot   *)
(* is its lineup, a player snapshot its id and the stats vibe_check reads  *)
(* and writes.  Times are in hours from the first game of season 3; stats  *)
(* are in fifths of the unit vibe_check divides by.                        *)
(***************************************************************************)
VibePeriod == 6
VibeDivisor == 5
Season == 3

TeamIds == {"t1", "t2"}
PlayerIds == {"p1", "p2"}
Days == {0, VibePeriod \div 2}
Cinnamons == {0, VibeDivisor}

\* time::game_time, in hours from game_time(3, 0).
game_time(season, day) ==
    LET date == IF day >= 99
                THEN 117 + (season - 3) * 168 + (day - 99)
                ELSE (season - 3) * 168 + day
        late == IF season = 3 /\ day >= 59 /\ day < 99 THEN 10 ELSE 0
        later == IF season = 3 /\ day >= 88 /\ day < 99 THEN 3 ELSE 0
    IN date + late + later

\* Game::timestamp
timestamp(game) == game_time(game.season, game.day)

\* A Player snapshot: buoyancy 0 gives current_vibe the period 6.
PlayerSnap(id, cinnamon) ==
    [id |-> id, cinnamon |-> cinnamon, pressurization |-> VibeDivisor,
     thwackability |-> VibeDivisor, patheticism |-> VibeDivisor]

\* Player::current_vibe on the days of the model: n.sin() is 1 at the start
\* of a period and -1 at its middle.
current_vibe(player, day) ==
    IF day % VibePeriod = 0 THEN player.cinnamon
    ELSE 0 - player.pressurization

\* Player::vibe_check: adj = current_vibe(day) / 5 added to the stats and
\* taken from patheticism.
vibe_check(player, day) ==
    LET adj == current_vibe(player, day) \div VibeDivisor
    IN [player EXCEPT !.cinnamon = @ + adj, !.pressurization = @ + adj,
                      !.thwackability = @ + adj, !.patheticism = @ - adj]

\* A get_player that hands out the snapshot as it is stored.
get_player_stored(game, database, id) ==
    IF id \notin DOMAIN database.players THEN None
    ELSE get(database.players[id], timestamp(game))

\* Game::get_player
get_player(game, database, id) ==
    IF id \notin DOMAIN database.players THEN None
    ELSE LET found == get(database.players[id], timestamp(game))
         IN IF found = None THEN None
            ELSE Some(vibe_check(found[1], game.day))

\* database.teams.get(id).and_then(|h| h.get(self.timestamp()))
get_team(game, database, id) ==
    IF id \notin DOMAIN database.teams THEN None
    ELSE get(database.teams[id], timestamp(game))

\* team.lineup.iter().map(get_player).collect::<Option<Vec<Player>>>()
get_lineup(game, database, team) ==
    LET found == [i \in 0..(LineupLen - 1) |->
                     get_player(game, database, team.lineup[i])]
    IN IF \E i \in 0..(LineupLen - 1) : found[i] = None THEN None
       ELSE Some([i \in 0..(LineupLen - 1) |-> found[i][1]])

\* Game::playable
playable(game, database) ==
    LET away_team == get_team(game, database, game.away_team)
        home_team == get_team(game, database, game.home_team)
    IN IF away_team = None \/ home_team = None THEN None
       ELSE LET away_lineup == get_lineup(game, database, away_team[1])
                home_lineup == get_lineup(game, database, home_team[1])
            IN IF away_lineup = None \/ home_lineup = None THEN None
               ELSE LET away_pitcher ==
                            get_player(game, database, game.away_pitcher)
                        home_pitcher ==
                            get_player(game, database, game.home_pitcher)
                    IN IF away_pitcher = None \/ home_pitcher = None THEN None
                       ELSE Some([id |-> game.id, season |-> game.season,
                                  day |-> game.day,
                                  lineups |-> [away |-> away_lineup[1],
                                               home |-> home_lineup[1]],
                                  pitchers |-> [away |-> away_pitcher[1],
                                                home |-> home_pitcher[1]]])

\* The lineups of the model: p1 in every slot, or p2 in the first or the
\* last one.
Lineups ==
    {[i \in 0..(LineupLen - 1) |-> IF i = k THEN "p2" ELSE "p1"] :
        k \in {0, LineupLen - 1, LineupLen}}

\* The Histories a loaded Database can hold for a team: one snapshot.
TeamHistories(id) ==
    {[k \in {game_time(Season, d)} |-> [id |-> id, lineup |-> l]] :
        d \in Days, l \in Lineups}

\* The Histories a loaded Database can hold for a player: one snapshot or
\* one at each time.
PlayerHistories(id) ==
    {[k \in {game_time(Season, d)} |-> PlayerSnap(id, c)] :
        d \in Days, c \in Cinnamons}
    \cup {[k \in {game_time(Season, d) : d \in Days} |->
              IF k = game_time(Season, 0) THEN PlayerSnap(id, c0)
              ELSE PlayerSnap(id, c1)] :
          c0, c1 \in Cinnamons}

\* The maps from the ids met to their Histories.
MapsOf(ids, histories(_)) ==
    UNION {{m \in [present -> UNION {histories(id) : id \in present}] :
                \A id \in present : m[id] \in histories(id)} :
           present \in SUBSET ids}

Databases ==
    [teams : MapsOf(TeamIds, TeamHistories),
     players : MapsOf(PlayerIds, PlayerHistories)]

Games ==
    [id : {<<0, 0>>}, season : {Season}, day : Days,
     away_team : {"t1"}, home_team : {"t2"},
     away_pitcher : PlayerIds, home_pitcher : PlayerIds]

NoPrep == [call |-> "none"]
NoDatabase == [teams |-> NoTeams, players |-> NoTeams]

PlayableIdle == db = NoDatabase /\ prep = NoPrep

\* main holds the Database that Database::load returned.
PlayableInit == db \in Databases /\ prep = NoPrep

\* The body of main's loop for one game: game.playable(&database), and
\* monte_carlo on the Playable if there is one.
Prepare(game) ==
    /\ prep = NoPrep
    /\ prep' = [call |-> "playable", game |-> game, database |-> db,
                playable |-> playable(game, db),
                simulated |-> playable(game, db) # None]
    /\ UNCHANGED db
    /\ UNCHANGED <<hvars, gvars, play, det, lvars, conc, call>>

PlayableNext == \E game \in Games : Prepare(game)

(***************************************************************************)
(* monte_carlo: the calls game.simulate(i) of the parallel iterator, run   *)
(* by the worker threads of the pool.  A worker runs one call at a time,   *)
(* to its end.  Each call owns the StdRng it seeds; Pitch::simulate draws  *)
(* from random() and thread_rng(), the generator of the thread that runs   *)
(* the call, which the operating system seeds.                             *)
(***************************************************************************)
ConcPitches == 2
Workers == {"w1", "w2"}
ConcId == <<0, 0>>

QueuedCall(seed) ==
    [status |-> "queued", worker |-> "none",
     rng |-> seed_from_u64(ConcId, seed), pitches |-> <<>>, rolls |-> <<>>]

NoConc ==
    [thread_rng |-> [w \in {} |-> 0], entropy |-> [w \in {} |-> 0],
     running |-> [w \in {} |-> None], users |-> [w \in {} |-> {}],
     calls |-> [i \in {} |-> 0]]

\* The pool before the first call starts: every thread generator in the
\* state the operating system's entropy gave it.
ConcInit ==
    \E e \in [Workers -> 0..(RngMod - 1)] :
        conc = [thread_rng |-> e, entropy |-> e,
                running |-> [w \in Workers |-> None],
                users |-> [w \in Workers |-> {}],
                calls |-> [i \in Seeds |-> QueuedCall(i)]]

\* An idle worker takes a call from the iterator.
StartCall(w, i) ==
    /\ w \in DOMAIN conc.running
    /\ conc.running[w] = None
    /\ conc.calls[i].status = "queued"
    /\ conc' = [conc EXCEPT !.running[w] = Some(i),
                            !.calls[i].status = "running",
                            !.calls[i].worker = w]
    /\ UNCHANGED <<hvars, gvars, play, det, lvars, pvars, call>>

\* Pitch::simulate in the call that w runs: the draw comes from the
\* generator of the thread.
ConcPitch(w) ==
    /\ w \in DOMAIN conc.running
    /\ conc.running[w] # None
    /\ LET i == conc.running[w][1]
           c == conc.calls[i]
       IN /\ Len(c.pitches) < ConcPitches
          /\ Len(c.pitches) = Len(c.rolls)
          /\ conc' = [conc EXCEPT
                 !.thread_rng[w] = next_u(@),
                 !.users[w] = @ \cup {i},
                 !.calls[i].pitches =
                     @ \o seeded_draws(conc.thread_rng[w], 1)]
    /\ UNCHANGED <<hvars, gvars, play, det, lvars, pvars, call>>

\* A roll in simulate itself (double play, advance): the draw comes from
\* the generator the call seeded.
ConcRoll(w) ==
    /\ w \in DOMAIN conc.running
    /\ conc.running[w] # None
    /\ LET i == conc.running[w][1]
           c == conc.calls[i]
       IN /\ Len(c.rolls) < Len(c.pitches)
          /\ conc' = [conc EXCEPT
                 !.calls[i].rng = next_u(@),
                 !.calls[i].rolls = @ \o seeded_draws(c.rng, 1)]
    /\ UNCHANGED <<hvars, gvars, play, det, lvars, pvars, call>>

\* The call returns and the worker is idle again.
ConcReturn(w) ==
    /\ w \in DOMAIN conc.running
    /\ conc.running[w] # None
    /\ LET i == conc.running[w][1]
           c == conc.calls[i]
       IN /\ Len(c.pitches) = ConcPitches
          /\ Len(c.rolls) = ConcPitches
          /\ conc' = [conc EXCEPT !.running[w] = None,
                                  !.calls[i].status = "done"]
    /\ UNCHANGED <<hvars, gvars, play, det, lvars, pvars, call>>

ConcNext ==
    \/ \E w \in Workers : \E i \in Seeds : StartCall(w, i)
    \/ \E w \in Workers : ConcPitch(w)
    \/ \E w \in Workers : ConcRoll(w)
    \/ \E w \in Workers : ConcReturn(w)

(***************************************************************************)
(* simulate pitch by pitch, from the states it can be in when it tests     *)
(* is_complete before the bottom of a late inning: the last regulation     *)
(* inning and the last inning a u8 counts.  inning += 1 at 255 overflows: the build   *)
(* decides whether the call panics (overflow checks on) or the counter     *)
(* wraps to 0 (overflow checks off).                                       *)
(***************************************************************************)
LateInnings == {LastInning, U8Mod - 1}

LiveStart(inning, bottom, away, home) ==
    [StateDefault EXCEPT !.score = [inning |-> inning, bottom |-> bottom,
                                    score |-> [away |-> away, home |-> home]]]

LiveInit ==
    /\ \E inning \in LateInnings, away \in 0..MaxScore, home \in 0..MaxScore :
           state = LiveStart(inning, TRUE, away, home)
    /\ outs = 0
    /\ balls = 0
    /\ strikes = 0
    /\ pc = "check"

\* The innings outside LateInnings are not explored.
Unexplored == state.score.inning \notin LateInnings

LiveReturn == ~Unexplored /\ Return

LiveBeginHalf == ~Unexplored /\ BeginHalf

\* One pass of the pitch loop, Pitch::simulate returning p.  The runs are
\* explored up to MaxScore a side.
LivePitch(p) ==
    /\ ~Unexplored
    /\ \E rng \in TapesFor(p, state) :
           /\ ThrowPitch(p, rng)
           /\ state'.score.score.away <= MaxScore
           /\ state'.score.score.home <= MaxScore
    /\ UNCHANGED <<hvars, play, det, lvars, pvars, conc, call>>

\* state.next_half_inning() after the third out, where inning += 1 does
\* not overflow, or wraps.
LiveNextHalfInning ==
    /\ pc = "half"
    /\ state' = next_half_inning(state)
    /\ pc' = "check"
    /\ UNCHANGED <<outs, balls, strikes>>
    /\ UNCHANGED <<hvars, play, det, lvars, pvars, conc, call>>

\* state.next_half_inning() where inning += 1 overflows and the build
\* checks it: the call panics and never returns a Score.
LiveOverflowPanic ==
    /\ pc = "half"
    /\ state.score.bottom
    /\ state.score.inning + 1 >= U8Mod
    /\ pc' = "panic"
    /\ UNCHANGED <<state, outs, balls, strikes>>
    /\ UNCHANGED <<hvars, play, det, lvars, pvars, conc, call>>

LiveNext ==
    \/ LiveReturn
    \/ LiveBeginHalf
    \/ \E p \in Pitch : LivePitch(p)
    \/ LiveNextHalfInning
    \/ LiveOverflowPanic

\* The call keeps running while it has a step to take, and every result
\* of Pitch::simulate that stays possible is eventually returned.
LiveFairness ==
    /\ WF_vars(LiveNext)
    /\ \A p \in Pitch : SF_vars(LivePitch(p))

(***************************************************************************)
(* stats::js_round on f64.  A number is h hundredths plus t units of       *)
(* 2^-54, the spacing of the f64 values between 0.25 and 0.5; t stays far  *)
(* below a hundredth, so sign, floor and comparisons go by h first and by  *)
(* t when h decides nothing.  Every operation below is exact on the        *)
(* numbers of RoundInputs.                                                 *)
(***************************************************************************)
Scale == 100
EpsUnits == 4
MaxRound == 600
MaxUlps == 4

F64(h, t) == [h |-> h, t |-> t]

Magnitude(n) == IF n < 0 THEN 0 - n ELSE n

\* The spacing of the f64 values next to the half h / Scale, on the side
\* of it that t points to, in units of 2^-54.
Ulp(h, t) ==
    LET a == Magnitude(h)
        toward_zero == (h > 0 /\ t < 0) \/ (h < 0 /\ t > 0)
    IN IF a < Scale
       THEN IF toward_zero THEN 1 ELSE 2
       ELSE IF a < 2 * Scale THEN 4
       ELSE IF a < 4 * Scale THEN 8
       ELSE 16

Halves == {h \in (0 - MaxRound)..MaxRound : h % Scale = Scale \div 2}

\* The arguments: the multiples of a hundredth, and the f64 values within
\* MaxUlps units of a half.
RoundInputs ==
    {F64(h, 0) : h \in (0 - MaxRound)..MaxRound}
    \cup UNION {{F64(h, t) : t \in {u \in (0 - MaxUlps)..MaxUlps :
                                         u % Ulp(h, u) = 0}} :
                h \in Halves}

is_sign_negative(x) == x.h < 0 \/ (x.h = 0 /\ x.t < 0)

\* f64::floor, as an integer.
floor(x) ==
    IF x.h % Scale = 0 /\ x.t < 0 THEN x.h \div Scale - 1 ELSE x.h \div Scale

\* f64::abs
abs(x) == IF is_sign_negative(x) THEN F64(0 - x.h, 0 - x.t) ELSE x

\* f64::trunc, as an integer.
trunc(x) == IF is_sign_negative(x) THEN 0 - floor(abs(x)) ELSE floor(x)

\* f64::fract: x - x.trunc()
fract(x) == F64(x.h - trunc(x) * Scale, x.t)

\* f64::round: to the nearest integer, halves away from zero.
round(x) ==
    LET r == floor(F64(abs(x).h + Scale \div 2, abs(x).t))
    IN IF is_sign_negative(x) THEN 0 - r ELSE r

\* (x.fract() + 0.5).abs() < f64::EPSILON
near_half(x) ==
    fract(x).h + Scale \div 2 = 0 /\ Magnitude(fract(x).t) < EpsUnits

js_round(x) ==
    IF is_sign_negative(x) /\ near_half(x) THEN round(x) + 1 ELSE round(x)

(***************************************************************************)
(* Single calls of the pure functions, on every input of a bounded set.    *)
(* call holds the function called, its input and what it returned.         *)
(***************************************************************************)
NoFn == [fn |-> "none"]

CallInit == call = NoFn

\* Pitch::simulate(pitcher, batter, defense), d telling for each of its
\* checks whether the draw r is below the threshold p.
Simulate(d) ==
    /\ call = NoFn
    /\ call' = [fn |-> "Pitch::simulate", draws |-> d,
                pitch |-> PitchSimulate(d)]
    /\ UNCHANGED <<hvars, gvars, play, det, lvars, pvars, conc>>

\* The calls of State::advance in simulate: (1, 2), (2, 3) and (3, 3) on
\* any bases for the hits and the Dinger, (0, 1) and (1, 1) after the last
\* base was cleared for the double play and the fielder's choice.
AdvanceCalls ==
    {<<occ, m[1], m[2]>> :
        occ \in SUBSET (0..2), m \in {<<1, 2>>, <<2, 3>>, <<3, 3>>}}
    \cup {<<occ, m[1], m[2]>> :
              occ \in SUBSET (0..1), m \in {<<0, 1>>, <<1, 1>>}}

\* state.advance(min, max, &mut rng) with the bases occ occupied.
Advance(c, side, rng) ==
    /\ call = NoFn
    /\ LET st == BatterUp(side, 0, c[1], 0)
       IN call' = [fn |-> "advance", state |-> st, min |-> c[2],
                   max |-> c[3], rng |-> rng,
                   ret |-> advance(st, c[2], c[3], rng)]
    /\ UNCHANGED <<hvars, gvars, play, det, lvars, pvars, conc>>

\* js_round(x)
JsRound(x) ==
    /\ call = NoFn
    /\ call' = [fn |-> "js_round", x |-> x, ret |-> js_round(x)]
    /\ UNCHANGED <<hvars, gvars, play, det, lvars, pvars, conc>>


(***************************************************************************)
(* The specifications.  Each one runs one component and leaves the         *)
(* variables of the others at their initial values.                        *)
(***************************************************************************)
GameIdle == GameInit /\ play = NoPlay
DetIdle == det = NoDet
ConcIdle == conc = NoConc
CallIdle == CallInit

\* A History and the calls made on it.
InitHistory ==
    /\ HistInit /\ GameIdle /\ DetIdle /\ LoadIdle
    /\ PlayableIdle /\ ConcIdle /\ CallIdle
SpecHistory == InitHistory /\ [][HistNext]_vars

\* One call of Playable::simulate, plate appearance by plate appearance.
Init ==
    /\ GameInit /\ play = NoPlay /\ HistInit /\ DetIdle /\ LoadIdle
    /\ PlayableIdle /\ ConcIdle /\ CallIdle
Spec == Init /\ [][GameNext]_vars

\* One plate appearance, pitch by pitch.
InitPitch ==
    /\ PitchInit /\ HistInit /\ DetIdle /\ LoadIdle
    /\ PlayableIdle /\ ConcIdle /\ CallIdle
SpecPitch == InitPitch /\ [][PitchNext]_vars

\* Two calls of Playable::simulate with the same id and seed.
InitDet ==
    /\ GameInit /\ play = NoPlay /\ DetInit /\ HistInit /\ LoadIdle
    /\ PlayableIdle /\ ConcIdle /\ CallIdle
SpecDet == InitDet /\ [][DetNext]_vars

\* Calls of Database::load on a directory that changes between them.
InitLoad ==
    /\ LoadInit /\ HistInit /\ GameIdle /\ DetIdle
    /\ PlayableIdle /\ ConcIdle /\ CallIdle
SpecLoad == InitLoad /\ [][LoadNext]_vars

\* main preparing one game of its loop.
InitPlayable ==
    /\ PlayableInit /\ HistInit /\ GameIdle /\ DetIdle /\ LoadIdle
    /\ ConcIdle /\ CallIdle
SpecPlayable == InitPlayable /\ [][PlayableNext]_vars

\* The calls of monte_carlo on the threads of the pool.
InitConc ==
    /\ ConcInit /\ HistInit /\ GameIdle /\ DetIdle /\ LoadIdle
    /\ PlayableIdle /\ CallIdle
SpecConc == InitConc /\ [][ConcNext]_vars

\* One call of simulate in a late inning, pitch by pitch, under fairness.
InitLive ==
    /\ LiveInit /\ play = NoPlay /\ HistInit /\ DetIdle /\ LoadIdle
    /\ PlayableIdle /\ ConcIdle /\ CallIdle
SpecLive == InitLive /\ [][LiveNext]_vars /\ LiveFairness

\* One call of simulate up to the test of is_complete that follows the
\* eighth inning: the innings before the eighth along strikes only, the
\* eighth in full, the ninth (explored by Spec) not at all.
RegulationExplored(st, p) ==
    /\ st.score.inning < LastInning
    /\ st.score.inning = LastInning - 1 \/ p = "Strike"

RegulationNext ==
    \/ Return
    \/ BeginHalf
    \/ \E p \in Pitch : \E c \in CountsFor(p) : \E rng \in TapesFor(p, state) :
           RegulationExplored(state, p) /\ PlateAppearance(p, c, rng, MaxScore)
           /\ UNCHANGED det
    \/ NextHalfInning

InitRegulation ==
    /\ GameInit /\ play = NoPlay /\ HistInit /\ DetIdle /\ LoadIdle
    /\ PlayableIdle /\ ConcIdle /\ CallIdle
SpecRegulation == InitRegulation /\ [][RegulationNext]_vars

\* One call of a pure function.
CallNext ==
    \/ \E d \in Draws : Simulate(d)
    \/ \E x \in RoundInputs : JsRound(x)
    \/ \E c \in AdvanceCalls, side \in Sides, rng \in Tape(3) :
           Advance(c, side, rng)

InitCall ==
    /\ CallInit /\ HistInit /\ GameIdle /\ DetIdle /\ LoadIdle
    /\ PlayableIdle /\ ConcIdle
SpecCall == InitCall /\ [][CallNext]_vars

(***************************************************************************)
(* Claims about one pitch (SpecPitch).                                     *)
(***************************************************************************)
Occupied(st) == {i \in 0..2 : st.bases[i] # None}
HittingRuns(st) == hitting(st, st.score.score)
FieldingRuns(st) == fielding(st, st.score.score)

\* The pitch just handled was the fourth ball: State::walk was called.
Walked == play.pitch = "Ball" /\ play.after.brk

\* C6: a walk puts the batter on first and moves a runner only when forced:
\* first to second iff first was occupied, second to third iff first and
\* second were, and third scores one run iff all three were; other runners
\* stay and no other run scores.
C6_WalkForcesOnly ==
    Walked =>
        LET b == play.before.state.bases
            a == play.after.state.bases
        IN /\ a[0] = Some(batter(play.before.state))
           /\ a[1] = IF b[0] # None THEN b[0] ELSE b[1]
           /\ a[2] = IF b[0] # None /\ b[1] # None THEN b[1] ELSE b[2]
           /\ HittingRuns(play.after.state) =
                  HittingRuns(play.before.state)
                  + (IF Occupied(play.before.state) = 0..2 THEN 1 ELSE 0)
           /\ FieldingRuns(play.after.state) = FieldingRuns(play.before.state)
           /\ play.after.outs = play.before.outs

\* A walk with the bases loaded.
C6_Witness ==
    /\ Walked
    /\ Occupied(play.before.state) = 0..2
    /\ HittingRuns(play.after.state) = HittingRuns(play.before.state) + 1

\* C7: on a Dinger every runner and the batter score: the hitting side
\* gains (occupied bases + 1) runs, the bases are empty, no out is recorded
\* and the plate appearance ends.
C7_DingerScoresBatter ==
    play.pitch = "Dinger" =>
        /\ HittingRuns(play.after.state) =
               HittingRuns(play.before.state)
               + Cardinality(Occupied(play.before.state)) + 1
        /\ Occupied(play.after.state) = {}
        /\ play.after.outs = play.before.outs
        /\ play.after.brk

\* The Out arm found a runner on base and its double-play roll succeeded.
DoublePlay ==
    /\ play.pitch = "Out"
    /\ Occupied(play.before.state) # {}
    /\ play.rng[3]

\* The Out arm found a runner on base, the double-play roll failed and the
\* fielder's-choice roll succeeded.
FieldersChoice ==
    /\ play.pitch = "Out"
    /\ Occupied(play.before.state) # {}
    /\ ~play.rng[3]
    /\ play.rng[4]

\* The runner closest to home before the pitch.
LeadBase == SetMax(Occupied(play.before.state))
OnBaseAfter(runner) == \E i \in 0..2 : play.after.state.bases[i] = runner

\* C8: on a double play the runner on the highest occupied base is removed
\* without scoring, two outs are recorded for the pitch, and every other
\* runner advances by 0 or 1 base.
C8_DoublePlayRemovesLead ==
    DoublePlay =>
        /\ ~OnBaseAfter(play.before.state.bases[LeadBase])
        /\ HittingRuns(play.after.state) = HittingRuns(play.before.state)
        /\ play.after.outs = play.before.outs + 2
        /\ \A i \in Occupied(play.before.state) \ {LeadBase} :
               \/ play.after.state.bases[i] = play.before.state.bases[i]
               \/ play.after.state.bases[i + 1] = play.before.state.bases[i]

\* C9: on a fielder's choice one out is recorded for the pitch, the runner
\* on the highest occupied base is removed without scoring, every other
\* runner advances exactly one base and the batter is on first.
C9_FieldersChoiceOneOut ==
    FieldersChoice =>
        /\ play.after.outs = play.before.outs + 1
        /\ ~OnBaseAfter(play.before.state.bases[LeadBase])
        /\ HittingRuns(play.after.state) = HittingRuns(play.before.state)
        /\ \A i \in Occupied(play.before.state) \ {LeadBase} :
               play.after.state.bases[i + 1] = play.before.state.bases[i]
        /\ play.after.state.bases[0] = Some(batter(play.before.state))

(***************************************************************************)
(* Claims about a whole call of simulate (Spec).                           *)
(***************************************************************************)
Tied(st) == st.score.score.away = st.score.score.home

\* C5: simulate returns only at inning >= 8 with unequal scores, and a
\* check that finds the scores equal at inning >= 8 starts another
\* half-inning.
C5_NoTiedReturn ==
    [][/\ pc' = "done" =>
              state'.score.inning >= LastInning /\ ~Tied(state')
       /\ (pc = "check" /\ state.score.inning >= LastInning /\ Tied(state)) =>
              (pc' = "pitch" /\ outs' = 0 /\ state' = state)]_vars

\* simulate has returned after the bottom of the ninth, which was played
\* because the scores were equal at the check before it.
C5_Witness ==
    /\ pc = "done"
    /\ state.score.inning = LastInning + 1
    /\ state.score.score.home > state.score.score.away

CacheHit ==
    /\ res.call = "load"
    /\ res.cache_path # None
    /\ res.cache_path[1] \in DOMAIN res.cache
    /\ res.cache[res.cache_path[1]].ok

\* The (file name, length, modification time) triples of a directory.
Triples(d) == {Entry(d, n) : n \in Present(d)}

\* The triples of a set in ascending order.
RECURSIVE Sorted(_)
Sorted(S) ==
    IF S = {} THEN <<>>
    ELSE LET least == CHOOSE e \in S : \A x \in S \ {e} : entry_lt(e, x)
         IN <<least>> \o Sorted(S \ {least})

\* What a rebuild from the files of d returns.
Rebuilt(d) ==
    dedup_all(read_files(d, Sorted(Triples(d)), {},
                  [ok |-> TRUE, teams |-> NoTeams, opened |-> <<>>]).teams)

\* C10: on a cache hit load returns the cached Database, opens no file and
\* leaves the cache as it was; the fingerprint is that of the schema
\* version and the sorted set of triples, whatever the order in which the
\* directory was listed, so the content of the files has no part in it.
C10_CacheHitReturnsCached ==
    (res.call = "load" /\ res.cache_dir) =>
        /\ res.cache_path =
               Some(write_words(0, cache_key_words(Sorted(Triples(res.dir)))))
        /\ \A o \in Orders(res.dir) :
               get_cache_path(read_dir(res.dir, o), TRUE) = res.cache_path
        /\ CacheHit =>
               /\ res.ok
               /\ res.database = res.cache[res.cache_path[1]].database
               /\ res.opened = <<>>
               /\ ~res.saved
               /\ cache = res.cache

\* A cache hit on a directory of two files whose content has changed since
\* the blob was written: the Database returned is not what a rebuild gives.
C10_Witness ==
    /\ CacheHit
    /\ Present(res.dir) = FileNames
    /\ res.ok
    /\ res.opened = <<>>
    /\ res.database # Rebuilt(res.dir)

\* The call of load listed the directory and got nothing from the cache.
CacheMiss == res.call = "load" /\ res.listed /\ ~CacheHit

HasBadLine(d, n) ==
    \E i \in DOMAIN d[n][1].content : d[n][1].content[i].kind = "bad"

\* Every file of the directory opens and every line of it parses.
Readable ==
    /\ res.fail_open = {}
    /\ \A n \in Present(res.dir) : ~HasBadLine(res.dir, n)

\* The names of the entries of a directory, in the order of the set.
RECURSIVE NamesOf(_)
NamesOf(entries) ==
    IF entries = <<>> THEN <<>>
    ELSE <<Head(entries).file_name>> \o NamesOf(Tail(entries))

\* C11: load surfaces no cache failure: when the cache gives nothing (no
\* cache directory, no blob, a blob that does not deserialize) load
\* rebuilds from the files, and it returns Ok with the Database it built
\* whether or not the blob could be written afterwards.
C11_CacheFailuresSwallowed ==
    (CacheMiss /\ Readable) =>
        /\ res.ok
        /\ res.database = Rebuilt(res.dir)
        /\ res.opened = NamesOf(Sorted(Triples(res.dir)))
        /\ (~(res.cache_dir /\ res.write_ok) => cache = res.cache)

\* A blob that does not deserialize lies at the cache path and the rebuilt
\* blob cannot be written: load returns Ok with a Database that is not
\* empty.
C11_Witness ==
    /\ CacheMiss
    /\ Readable
    /\ res.cache_path # None
    /\ res.cache_path[1] \in DOMAIN res.cache
    /\ ~res.write_ok
    /\ res.ok
    /\ res.database # NoTeams

\* C12: load fails as a whole when the directory cannot be listed or, on a
\* cache miss, when a file cannot be opened or a line does not parse: it
\* returns an error, no Database, and writes no blob.
C12_LoadFailsWhole ==
    (res.call = "load" /\ (~res.listed \/ (CacheMiss /\ ~Readable))) =>
        /\ ~res.ok
        /\ res.database = NoTeams
        /\ ~res.saved
        /\ cache = res.cache

\* The first file was read and gave a snapshot, the second holds a line
\* that does not parse, and the cache could have been written.
C12_Witness ==
    /\ CacheMiss
    /\ Present(res.dir) = FileNames
    /\ res.fail_open = {}
    /\ res.dir[1][1].content # <<>>
    /\ ~HasBadLine(res.dir, 1)
    /\ HasBadLine(res.dir, NumFiles)
    /\ res.opened = NamesOf(Sorted(Triples(res.dir)))
    /\ res.cache_dir
    /\ res.write_ok
    /\ ~res.ok

\* The batches of all the files of a directory.
BatchesOf(d) ==
    UNION {{d[n][1].content[i] : i \in DOMAIN d[n][1].content} :
               n \in Present(d)}

\* No two batches of the directory carry the same timestamp, in one file
\* or in two.
DistinctStamps(d) ==
    /\ \A n \in Present(d) : \A i, j \in DOMAIN d[n][1].content :
           i # j => d[n][1].content[i].timestamp # d[n][1].content[j].timestamp
    /\ \A m, n \in Present(d) : m # n =>
           \A i \in DOMAIN d[m][1].content : \A j \in DOMAIN d[n][1].content :
               d[m][1].content[i].timestamp # d[n][1].content[j].timestamp

\* The snapshot of the batch with the greatest timestamp <= t.
LatestSnapshot(d, t) ==
    LET upto == {b \in BatchesOf(d) : b.timestamp <= t}
    IN IF upto = {} THEN None
       ELSE Some((CHOOSE b \in upto :
                      \A x \in upto : x.timestamp <= b.timestamp).data)

\* The snapshot of the team a Database holds for time t.
SnapshotAt(database, t) ==
    IF "team" \in DOMAIN database THEN get(database["team"], t) ELSE None

\* C13: after a rebuild get(t) is the snapshot of the batch with the
\* greatest timestamp <= t among the batches of all the files (None when
\* there is none), provided no two batches carry the same timestamp; and
\* dedup has run after the last insert, so no History is left with two
\* equal consecutive values.
C13_RebuildMergesAllFiles ==
    (CacheMiss /\ res.ok /\ DistinctStamps(res.dir)) =>
        /\ \A t \in Stamps :
               SnapshotAt(res.database, t) = LatestSnapshot(res.dir, t)
        /\ \A id \in DOMAIN res.database :
               NoConsecutiveEqual(res.database[id])

\* Two files, the first with the later batch, the batches differing in
\* their snapshot: the History answers from the second file at the earlier
\* time and from the first file at the later one.
C13_Witness ==
    /\ CacheMiss
    /\ res.ok
    /\ Present(res.dir) = FileNames
    /\ \E a, b \in Values :
           /\ a # b
           /\ res.dir[1][1].content = <<TeamsLine(MaxStamp, a)>>
           /\ res.dir[NumFiles][1].content = <<TeamsLine(0, b)>>
           /\ SnapshotAt(res.database, 0) = Some(b)
           /\ SnapshotAt(res.database, MaxStamp) = Some(a)

(***************************************************************************)
(* Claims about Game::playable (SpecPlayable).                             *)
(***************************************************************************)
\* The History of id in map has a snapshot at or before time ts.
HasSnapshot(map, id, ts) ==
    id \in DOMAIN map /\ \E k \in DOMAIN map[id] : k <= ts

\* The snapshot in force at ts.
InForce(map, id, ts) ==
    map[id][SetMax({k \in DOMAIN map[id] : k <= ts})]

\* The players the game needs: the lineups of the two rosters in force and
\* the two starting pitchers.
Needed(game, database) ==
    {InForce(database.teams, t, timestamp(game)).lineup[i] :
        t \in {game.away_team, game.home_team}, i \in 0..(LineupLen - 1)}
    \cup {game.away_pitcher, game.home_pitcher}

\* A roster, a lineup player or a starting pitcher has no snapshot at or
\* before the time of the game.
MissingData(game, database) ==
    \/ \E t \in {game.away_team, game.home_team} :
           ~HasSnapshot(database.teams, t, timestamp(game))
    \/ \E id \in Needed(game, database) :
           ~HasSnapshot(database.players, id, timestamp(game))

\* The snapshot of a player in force at the game, adjusted for its day.
Adjusted(game, database, id) ==
    vibe_check(InForce(database.players, id, timestamp(game)), game.day)

\* C14: playable returns None, and no simulation runs, when a roster, a
\* lineup player or a starting pitcher has no snapshot at or before the
\* time of the game; otherwise it returns a Playable whose lineups and
\* pitchers are the snapshots in force, adjusted for the day; the Database
\* is left as it was.
C14_PlayableNeedsAllSnapshots ==
    prep.call = "playable" =>
        LET game == prep.game
            ts == timestamp(prep.game)
        IN /\ db = prep.database
           /\ MissingData(game, db) =>
                  prep.playable = None /\ ~prep.simulated
           /\ ~MissingData(game, db) =>
                  /\ prep.playable # None
                  /\ prep.simulated
                  /\ \A i \in 0..(LineupLen - 1) :
                         /\ prep.playable[1].lineups.away[i] =
                                Adjusted(game, db, InForce(db.teams,
                                    game.away_team, ts).lineup[i])
                         /\ prep.playable[1].lineups.home[i] =
                                Adjusted(game, db, InForce(db.teams,
                                    game.home_team, ts).lineup[i])
                  /\ prep.playable[1].pitchers.away =
                         Adjusted(game, db, game.away_pitcher)
                  /\ prep.playable[1].pitchers.home =
                         Adjusted(game, db, game.home_pitcher)

\* A game with every snapshot it needs, a player whose History has an
\* earlier and a later snapshot, and a day on which vibe_check changes the
\* stats.
C14_Witness ==
    /\ prep.call = "playable"
    /\ prep.playable # None
    /\ prep.game.day = 0
    /\ \E id \in PlayerIds :
           /\ id \in DOMAIN db.players
           /\ Cardinality(DOMAIN db.players[id]) = 2
           /\ prep.playable[1].pitchers.away.id = id
           /\ prep.playable[1].pitchers.away #
                  db.players[id][game_time(Season, 0)]
    /\ \E i \in 0..(LineupLen - 1) :
           prep.playable[1].lineups.home[i].id = "p2"

\* Only one thing is missing, the snapshot of the player in the last slot
\* of the home lineup: playable returns None.
C14_WitnessMissing ==
    /\ prep.call = "playable"
    /\ prep.playable = None
    /\ ~prep.simulated
    /\ \A t \in TeamIds : HasSnapshot(db.teams, t, timestamp(prep.game))
    /\ HasSnapshot(db.players, "p1", timestamp(prep.game))
    /\ prep.game.away_pitcher = "p1"
    /\ prep.game.home_pitcher = "p1"
    /\ InForce(db.teams, "t1", timestamp(prep.game)).lineup[0] = "p1"
    /\ InForce(db.teams, "t2", timestamp(prep.game)).lineup[LineupLen - 1] = "p2"

(***************************************************************************)
(* Claims about the concurrent calls of monte_carlo (SpecConc).            *)
(***************************************************************************)
\* What the call gets from Pitch::simulate when it is the only call its
\* thread ever runs.
AlonePitches(w) == seeded_draws(conc.entropy[w], ConcPitches)

\* C15: a call of simulate that has returned got what it gets when run
\* alone, whatever the interleaving, and no generator is drawn from by
\* two calls.
C15_CallsIndependent ==
    /\ \A w \in DOMAIN conc.users : Cardinality(conc.users[w]) <= 1
    /\ \A i \in DOMAIN conc.calls :
           conc.calls[i].status = "done" =>
               /\ conc.calls[i].pitches = AlonePitches(conc.calls[i].worker)
               /\ conc.calls[i].rolls =
                      seeded_draws(seed_from_u64(ConcId, i), ConcPitches)

(***************************************************************************)
(* Claims about the termination of simulate (SpecLive).                    *)
(***************************************************************************)
\* C16: under the fairness of SpecLive every call of simulate eventually
\* returns (or plays on into an inning that is not explored).
C16_SimulateReturns == <>(pc = "done" \/ Unexplored)

(***************************************************************************)
(* Claims about the pure functions (SpecCall).                             *)
(***************************************************************************)
\* The pitch Pitch::simulate returned is p exactly when the draws satisfy
\* cond.
Yields(p, cond) == (call.pitch = p) <=> cond

\* C17: for every combination of draws Pitch::simulate returns one of the
\* 8 outcomes, decided by the checks in their order: Ball for no swing out
\* of the zone; Strike for no swing in the zone and for a swing without
\* contact; after contact Foul, then Dinger, then Out, then Single, then
\* Triple, each only if every check before it failed, and Double if all
\* fail.  The draws after the decisive check do not count.
C17_PitchDecidedInOrder ==
    call.fn = "Pitch::simulate" =>
        LET d == call.draws
            zone == d["in_strike_zone"]
            swing == d["batter_swings"]
            contact == swing /\ d["batter_hits"]
        IN /\ call.pitch \in {"Ball", "Strike", "Foul", "Out", "Single",
                              "Double", "Triple", "Dinger"}
           /\ Yields("Ball", ~swing /\ ~zone)
           /\ Yields("Strike", (~swing /\ zone) \/ (swing /\ ~d["batter_hits"]))
           /\ Yields("Foul", contact /\ d["foul"])
           /\ Yields("Dinger", contact /\ ~d["foul"] /\ d["home_run"])
           /\ Yields("Out", contact /\ ~d["foul"] /\ ~d["home_run"] /\ d["out"])
           /\ Yields("Single", contact /\ ~d["foul"] /\ ~d["home_run"]
                               /\ ~d["out"] /\ d["single"])
           /\ Yields("Triple", contact /\ ~d["foul"] /\ ~d["home_run"]
                               /\ ~d["out"] /\ ~d["single"] /\ d["triple"])
           /\ Yields("Double", contact /\ ~d["foul"] /\ ~d["home_run"]
                               /\ ~d["out"] /\ ~d["single"] /\ ~d["triple"])

\* A Foul although every later check would have succeeded too.
C17_Witness ==
    /\ call.fn = "Pitch::simulate"
    /\ call.pitch = "Foul"
    /\ call.draws["home_run"]
    /\ call.draws["out"]
    /\ call.draws["single"]
    /\ call.draws["triple"]

\* floor(x + 0.5)
FloorOfPlusHalf(x) == floor(F64(x.h + Scale \div 2, x.t))

\* js_round at the multiple h of a hundredth.
RoundOfHundredths(h) == js_round(F64(h, 0))

\* C18: js_round(x) is floor(x + 0.5) for every x; it takes 5.95 and 5.5
\* to 6, 5.05 to 5, -5.05 and -5.5 to -5, and -5.95 to -6.
C18_JsRoundIsFloorOfPlusHalf ==
    /\ call.fn = "js_round" => call.ret = FloorOfPlusHalf(call.x)
    /\ RoundOfHundredths(595) = 6
    /\ RoundOfHundredths(550) = 6
    /\ RoundOfHundredths(505) = 5
    /\ RoundOfHundredths(0 - 505) = 0 - 5
    /\ RoundOfHundredths(0 - 550) = 0 - 5
    /\ RoundOfHundredths(0 - 595) = 0 - 6

(***************************************************************************)
(* Claims about the loops of simulate (Spec, SpecPitch).                   *)
(***************************************************************************)
\* C19 as stated: once is_complete holds at the end of a plate appearance
\* no further plate appearance is played.
C19_NoPlateAppearanceOnceComplete ==
    [][(pc = "pitch" /\ is_complete(state)) => state' = state]_vars

\* C19, amended: is_complete is tested after every completed half-inning
\* and nowhere else; once it holds there no further plate appearance is
\* played and simulate returns the score as it stands then.
C19_TestedAfterEveryHalfInning ==
    [][/\ pc = "half" => pc' = "check"
       /\ pc = "pitch" => pc' \in {"pitch", "half"}
       /\ (pc = "check" /\ is_complete(state)) =>
              (pc' = "done" /\ state' = state)
       /\ (pc = "check" /\ ~is_complete(state)) => pc' = "pitch"
       /\ pc = "done" => pc' = "done"]_vars

\* The home side took the lead in the bottom of the last regulation
\* inning, the half-inning was played out, and simulate has returned.
C19_Witness ==
    /\ pc = "done"
    /\ is_top(state)
    /\ state.score.inning = LastInning + 1
    /\ state.score.score.home > state.score.score.away

\* C20: outs is 0, 1 or 2 before every pitch, the half-inning ends exactly
\* when outs is 3, and no pitch takes outs above 3.
C20_OutsAtMostThree ==
    /\ outs \in 0..3
    /\ pc = "pitch" => outs \in 0..2
    /\ pc = "half" <=> outs = 3

(***************************************************************************)
(* Claims about the count of a plate appearance (SpecPitch).               *)
(***************************************************************************)
\* The arm of the last pitch left the State and the outs as they were.
NothingButCount ==
    /\ play.after.state = play.before.state
    /\ play.after.outs = play.before.outs

\* C21: before every pitch balls <= 3 and strikes <= 2; a Foul adds a
\* strike only while strikes < 2 and neither ends the plate appearance nor
\* records an out; the plate appearance ends by strikeout exactly on the
\* Strike that makes strikes 3 (one out) and by walk exactly on the Ball
\* that makes balls 4 (no out); the count is 0/0 when the next batter
\* comes up.
C21_CountWithinPlateAppearance ==
    /\ pc = "pitch" => (balls \in 0..3 /\ strikes \in 0..2)
    /\ play.pitch # "none" =>
           (play.before.balls \in 0..3 /\ play.before.strikes \in 0..2)
    /\ play.pitch = "Foul" =>
           /\ play.after.strikes =
                  IF play.before.strikes < 2 THEN play.before.strikes + 1
                  ELSE play.before.strikes
           /\ play.after.balls = play.before.balls
           /\ ~play.after.brk
           /\ NothingButCount
    /\ play.pitch = "Strike" =>
           /\ play.after.strikes = play.before.strikes + 1
           /\ play.after.brk <=> play.after.strikes = 3
           /\ play.after.outs =
                  play.before.outs + (IF play.after.strikes = 3 THEN 1 ELSE 0)
           /\ play.after.state = play.before.state
    /\ play.pitch = "Ball" =>
           /\ play.after.balls = play.before.balls + 1
           /\ play.after.brk <=> play.after.balls = 4
           /\ play.after.outs = play.before.outs
           /\ ~play.after.brk => play.after.state = play.before.state
    /\ PlateAppearanceOver => (balls = 0 /\ strikes = 0)

\* A Foul at two strikes on a full count: the count stays 3/2.
C21_Witness ==
    /\ play.pitch = "Foul"
    /\ play.before.balls = 3
    /\ play.before.strikes = 2
    /\ balls = 3
    /\ strikes = 2
    /\ pc = "pitch"

(***************************************************************************)
(* Claims about the sequence of half-innings (Spec, SpecLive).             *)
(***************************************************************************)
\* C22: next_half_inning turns the top of an inning into its bottom and
\* the bottom into the top of the next inning, nothing else changes the
\* half or the inning, the inning counter never decreases or skips, and
\* the bases are empty when a half-inning begins.
C22_HalfInningsInSequence ==
    [][/\ (pc = "half" /\ pc' = "check") =>
              /\ state'.bases = NoBases
              /\ IF is_top(state)
                 THEN /\ is_bottom(state')
                      /\ state'.score.inning = state.score.inning
                 ELSE /\ is_top(state')
                      /\ state'.score.inning = state.score.inning + 1
       /\ ~(pc = "half" /\ pc' = "check") =>
              /\ state'.score.inning = state.score.inning
              /\ state'.score.bottom = state.score.bottom
       /\ state'.score.inning >= state.score.inning
       /\ state'.score.inning <= state.score.inning + 1
       /\ (pc = "check" /\ pc' = "pitch") => state.bases = NoBases]_vars

(***************************************************************************)
(* Claims about the runners on a pitch (SpecPitch).                        *)
(***************************************************************************)
HitMin == [Single |-> 1, Double |-> 2, Triple |-> 3]
HitMax == [Single |-> 2, Double |-> 3, Triple |-> 3]
HitBase == [Single |-> 0, Double |-> 1, Triple |-> 2]
Hit == play.pitch \in DOMAIN HitMin

\* The bases on which the runner who stood on base i before the pitch
\* stands after it.
BasesAfter(i) ==
    {j \in 0..2 : play.after.state.bases[j] = play.before.state.bases[i]}

\* The runners of before the pitch who are on no base after it.
Home == {i \in Occupied(play.before.state) : BasesAfter(i) = {}}

\* C23: on a Single, Double or Triple every runner advances by at least
\* min and at most max bases, (min, max) being (1, 2), (2, 3), (3, 3); a
\* runner who reaches index 3 or more leaves the bases and scores one run
\* for the hitting side (counted in a u8); the batter is then on base 0, 1
\* or 2, and no out is recorded.
C23_HitAdvancesRunners ==
    Hit =>
        LET min == HitMin[play.pitch]
            max == HitMax[play.pitch]
        IN /\ \A i \in Occupied(play.before.state) :
                  \/ \E a \in min..max : BasesAfter(i) = {i + a}
                  \/ i \in Home /\ i + max >= 3
           /\ HittingRuns(play.after.state) =
                  (HittingRuns(play.before.state) + Cardinality(Home)) % U8Mod
           /\ FieldingRuns(play.after.state) = FieldingRuns(play.before.state)
           /\ play.after.state.bases[HitBase[play.pitch]] =
                  Some(batter(play.before.state))
           /\ Occupied(play.after.state) =
                  UNION {BasesAfter(i) : i \in Occupied(play.before.state)}
                  \cup {HitBase[play.pitch]}
           /\ play.after.outs = play.before.outs
           /\ play.after.brk

\* A Single with runners on first and second: the runner from second
\* scores and the runner from first takes third.
C23_Witness ==
    /\ play.pitch = "Single"
    /\ Occupied(play.before.state) = {0, 1}
    /\ Home = {1}
    /\ BasesAfter(0) = {2}
    /\ Occupied(play.after.state) = {0, 2}

(***************************************************************************)
(* Claims about State::advance (SpecCall).                                 *)
(***************************************************************************)
\* The occupied bases above base i, and the one processed just before i.
Higher(c, i) == {j \in Occupied(c.state) : j > i}
Before(c, i) == SetMin(Higher(c, i))

\* What the claim gives the runner on base i: in_front is max for the
\* first runner processed and the advance of the runner processed just
\* before afterwards; the runner rolls when in_front > min, the rolls
\* being taken from the generator in the order of processing, and advances
\* by max on a successful roll and by min otherwise.
RECURSIVE Advanced(_, _)
InFront(c, i) == IF Higher(c, i) = {} THEN c.max ELSE Advanced(c, Before(c, i))
Rolls(c, i) == InFront(c, i) > c.min
RollOf(c, i) == c.rng[1 + Cardinality({j \in Higher(c, i) : Rolls(c, j)})]
Advanced(c, i) == IF Rolls(c, i) /\ RollOf(c, i) THEN c.max ELSE c.min

\* C24: advance(min, max) takes the occupied bases from third to first; a
\* runner rolls only when in_front > min, in_front being max for the first
\* runner and the advance of the runner processed just before afterwards;
\* the runner advances by max if the roll succeeds and by min otherwise,
\* so a trailing runner takes the extra base only if the runner before it
\* did.
C24_AdvanceByInFront ==
    call.fn = "advance" =>
        LET occ == Occupied(call.state)
            on == {i \in occ : i + Advanced(call, i) <= 2}
        IN /\ \A i \in on :
                  call.ret.state.bases[i + Advanced(call, i)] =
                      call.state.bases[i]
           /\ Occupied(call.ret.state) = {i + Advanced(call, i) : i \in on}
           /\ HittingRuns(call.ret.state) =
                  (HittingRuns(call.state) + Cardinality(occ \ on)) % U8Mod
           /\ Len(call.ret.rng) =
                  Len(call.rng) - Cardinality({i \in occ : Rolls(call, i)})
           /\ \A i \in occ :
                  (Advanced(call, i) > call.min /\ Higher(call, i) # {}) =>
                      Advanced(call, Before(call, i)) = call.max

\* advance(1, 2) with the bases loaded: the runner from third rolls and
\* fails, so the two behind it get no roll and advance one base.
C24_Witness ==
    /\ call.fn = "advance"
    /\ call.min = 1
    /\ call.max = 2
    /\ Occupied(call.state) = 0..2
    /\ ~call.rng[1]
    /\ call.rng[2]
    /\ Occupied(call.ret.state) = {1, 2}
    /\ Len(call.ret.rng) = 2

(***************************************************************************)
(* Claims about the batting order (Spec).                                  *)
(***************************************************************************)
HittingSide(st) == IF st.score.bottom THEN "home" ELSE "away"
FieldingSide(st) == IF st.score.bottom THEN "away" ELSE "home"

\* C25: the batter is the entry of the hitting side's lineup at that
\* side's position; every completed plate appearance, the one that makes
\* the third out included, takes the hitting side's position to
\* (position + 1) mod 9 and leaves the fielding side's alone; nothing else
\* changes a position, so a side finds its position again in its next
\* half-inning; both positions stay in 0..8.
C25_BattingOrder ==
    [][/\ batter(state) =
              lineups[HittingSide(state)][state.position[HittingSide(state)]]
       /\ pc = "pitch" =>
              /\ state'.position[HittingSide(state)] =
                     (state.position[HittingSide(state)] + 1) % LineupLen
              /\ state'.position[FieldingSide(state)] =
                     state.position[FieldingSide(state)]
       /\ pc # "pitch" => state'.position = state.position
       /\ \A s \in Sides : state'.position[s] \in 0..(LineupLen - 1)]_vars

\* The top of the fourth inning after three strikeouts in every half and
\* one more batter: the away side is back at position 1, the home side at
\* position 0.
C25_Witness ==
    /\ pc = "pitch"
    /\ state.score.inning = 3
    /\ is_top(state)
    /\ state.position.away = 1
    /\ state.position.home = 0

(***************************************************************************)
(* Claims about History::dedup and History::get (SpecHistory).             *)
(***************************************************************************)
\* C26: dedup never changes the answer of a query: for every time t,
\* get(t) after dedup is what get(t) was before it, None included.
C26_DedupKeepsGet ==
    last.op = "dedup" =>
        \A t \in 0..(MaxTime + 1) : get(history, t) = get(last.before, t)

\* A dedup that removed a record from a History holding two values.
C26_Witness ==
    /\ last.op = "dedup"
    /\ DOMAIN history # DOMAIN last.before
    /\ Cardinality({history[k] : k \in DOMAIN history}) = 2

(***************************************************************************)
(* Claims about the runners kept by a pitch (SpecPitch).                   *)
(***************************************************************************)
\* The pitch called State::advance.
Advances == Hit \/ play.pitch = "Dinger" \/ DoublePlay \/ FieldersChoice

\* The runners State::advance found: those of before the pitch, without
\* the one the Out arm took off the last base.
Found ==
    Occupied(play.before.state)
        \ (IF DoublePlay \/ FieldersChoice THEN {2} ELSE {})

\* The batter was put on a base.
BatterPlaced == Hit \/ FieldersChoice
BatterBase == IF Hit THEN HitBase[play.pitch] ELSE 0

\* C27: no runner is lost by being overwritten: on every pitch that calls
\* State::advance each runner it found is afterwards on exactly one base
\* or has scored a run, two of them are never on the same base and keep
\* their order, and the batter put on first (Single, fielder's choice),
\* second (Double) or third (Triple) takes a base no runner stands on.
C27_NoRunnerOverwritten ==
    Advances =>
        LET scored == {i \in Found : BasesAfter(i) = {}}
        IN /\ \A i \in Found : Cardinality(BasesAfter(i)) <= 1
           /\ HittingRuns(play.after.state) =
                  (HittingRuns(play.before.state) + Cardinality(scored))
                      % U8Mod
           /\ \A i, j \in Found \ scored :
                  i < j => SetMax(BasesAfter(i)) < SetMax(BasesAfter(j))
           /\ BatterPlaced =>
                  /\ play.after.state.bases[BatterBase] =
                         Some(batter(play.before.state))
                  /\ \A i \in Found : BatterBase \notin BasesAfter(i)
           /\ Cardinality(Occupied(play.after.state)) =
                  Cardinality(Found \ scored)
                  + (IF BatterPlaced THEN 1 ELSE 0)

\* A Single with runners on first and second on which the roll of the
\* runner from second fails: the runners are on second and third and the
\* batter on first.
C27_Witness ==
    /\ play.pitch = "Single"
    /\ Occupied(play.before.state) = {0, 1}
    /\ BasesAfter(1) = {2}
    /\ BasesAfter(0) = {1}
    /\ play.after.state.bases[0] = Some(batter(play.before.state))

(***************************************************************************)
(* Claims about who stands on the bases (Spec).                            *)
(***************************************************************************)
\* The players of a lineup.
Members(side) == {lineups[side][i] : i \in 0..(LineupLen - 1)}

\* C28: with lineups of 9 distinct players, in every state of simulate the
\* occupants of the three bases are pairwise distinct members of the
\* hitting side's lineup, and the player at bat is on no base.
C28_RunnersDistinct ==
    /\ \A i \in Occupied(state) :
           /\ Len(state.bases[i]) = 1
           /\ state.bases[i][1] \in Members(HittingSide(state))
    /\ \A i, j \in Occupied(state) :
           i # j => state.bases[i] # state.bases[j]
    /\ \A i \in 0..2 : state.bases[i] # Some(batter(state))

\* The bases loaded in the bottom of the ninth with a batter up.
C28_Witness ==
    /\ pc = "pitch"
    /\ is_bottom(state)
    /\ state.score.inning = LastInning
    /\ Occupied(state) = 0..2
    /\ Cardinality(Members("home")) = LineupLen

(***************************************************************************)
(* Claims about the runs of a pitch (SpecPitch).                           *)
(***************************************************************************)
\* The scoring events of the last pitch: the runners the arm moved who are
\* on no base after it, one call of State::score each.
ScoringEvents == Cardinality({i \in Found : BasesAfter(i) = {}})

\* C29: runs go to the side at bat only: a pitch of a top half leaves the
\* home score alone and a pitch of a bottom half the away score; every
\* scoring event adds exactly one to the score of the side at bat; and
\* below the u8 limit no score decreases.
C29_RunsToSideAtBat ==
    play.pitch # "none" =>
        LET before == play.before.state.score
            after == play.after.state.score
        IN /\ after.bottom = before.bottom
           /\ is_top(play.before.state) => after.score.home = before.score.home
           /\ is_bottom(play.before.state) =>
                  after.score.away = before.score.away
           /\ HittingRuns(play.after.state) =
                  (HittingRuns(play.before.state) + ScoringEvents) % U8Mod
           /\ \A s \in Sides :
                  before.score[s] + ScoringEvents < U8Mod =>
                      after.score[s] >= before.score[s]

\* A Double in a top half with the bases loaded: the runners from third
\* and second score, two runs for the away side and none for the home
\* side.
C29_Witness ==
    /\ play.pitch = "Double"
    /\ is_top(play.before.state)
    /\ Occupied(play.before.state) = 0..2
    /\ BasesAfter(0) = {2}
    /\ play.after.state.score.score.away =
           play.before.state.score.score.away + 2
    /\ play.after.state.score.score.home = play.before.state.score.score.home

(***************************************************************************)
(* Claims about the end of the regulation innings (SpecRegulation).        *)
(***************************************************************************)
\* C30: every call of simulate plays at least the top half of the ninth
\* inning (inning index 8) before it returns: it does not return in the
\* state next_half_inning leaves when the inning counter becomes 8, the
\* top of the ninth with no pitch of it thrown.
C30_NinthInningPlayed ==
    pc = "done" =>
        \/ state.score.inning > LastInning
        \/ state.score.inning = LastInning /\ is_bottom(state)

====
